---- MODULE Spec2Model ----
(***************************************************************************)
(* Model of the klados job actor (KladosJobDO): the job_state table, the   *)
(* alarm slot, the /start and /status handlers, the alarm handler, and the *)
(* collaborators the alarm handler calls (log recorder, processing         *)
(* callback, entity store, flow interpreter).                              *)
(*                                                                         *)
(* Encodings.  A nullable value, and every property of a JSON object, is a *)
(* sequence of length 0 (NULL or undefined) or 1 (the value).  A message   *)
(* is a sequence of strings (the parts of a template literal).  The        *)
(* job_state table is the sequence of its rows; the row with id = 1 is the *)
(* only row the code ever inserts.                                         *)
(* SqlStorageCursor.one() is read the way the code reads it: the row, or   *)
(* nothing when the table has no row (`if (existing)`, `if (!row)`).       *)
(***************************************************************************)
EXTENDS Integers, Sequences, FiniteSets, TLC

VARIABLES
    job_state,  \* the job_state table: << >> or << row >>
    alarmSlot,  \* the actor's single alarm: NoAlarm, or the alarm that is pending
    retries,    \* how often the platform has retried a throwing alarm handler in a row
    logs,       \* log recorder: the log records written, indexed by file id
    interp,     \* flow interpreter: the invocations it received, in order
    cbCalls,    \* processing callback: the invocations it received, in order
    statusLog,  \* every value written to job_state.status, in order
    nFire,      \* number of alarm() invocations so far
    delivery,   \* the last alarm delivery: "none", "due" (the pending alarm) or "again"
    failed,     \* whether a call of some alarm() invocation has failed so far
    finalized,  \* whether failKlados has been invoked for the job so far
    run,        \* the alarm() invocation in progress: where it is suspended, its locals
    starting,   \* the handleStart invocation suspended at its setAlarm, if one is
    last        \* the handler invocation that ran last: what it did and answered

vars == <<job_state, alarmSlot, retries, logs, interp, cbCalls, statusLog, nFire, delivery,
          failed, finalized, run, starting, last>>

----------------------------------------------------------------------------
(* Bounds of the model *)

MaxFires == 3
AlarmRetryLimit == 1

----------------------------------------------------------------------------
(* Values *)

None == << >>
Some(v) == <<v>>
IsSome(x) == Len(x) > 0
Val(x) == x[1]

\* The alarm slot: whether an alarm is pending, the delay it was set with, who set it
NoAlarm == [set |-> FALSE, delay |-> 0, by |-> "none"]
StartDelay == 100
RescheduleDelay == 1000
setAlarm(delay, by) == [set |-> TRUE, delay |-> delay, by |-> by]

\* The job id this actor is addressed by: env.KLADOS_JOB.idFromName(req.job_id)
ActorJobId == "j1"

RhizaOf(path) == [id |-> "r1", path |-> path]

\* KladosRequest payloads sent to this actor
Requests ==
    { [job_id |-> Some(ActorJobId), target_entity |-> Some("e1"), rhiza |-> None],
      [job_id |-> Some(ActorJobId), target_entity |-> Some("e1"), rhiza |-> Some(RhizaOf(<<"stepA">>))],
      [job_id |-> Some(ActorJobId), target_entity |-> Some("e1"), rhiza |-> Some(RhizaOf(<<"stepA", "stepB">>))],
      [job_id |-> Some(ActorJobId), target_entity |-> None, rhiza |-> Some(RhizaOf(<< >>))] }

\* The worker's environment bindings (AGENT_ID, AGENT_VERSION, ARKE_AGENT_KEY)
WorkerEnvs ==
    { [AGENT_ID |-> "a1", AGENT_VERSION |-> "v1", ARKE_AGENT_KEY |-> "k1"],
      [AGENT_ID |-> "a2", AGENT_VERSION |-> "v1", ARKE_AGENT_KEY |-> "k2"] }

KladosJobConfig(env) ==
    [agentId |-> Some(env.AGENT_ID), agentVersion |-> Some(env.AGENT_VERSION),
     authToken |-> Some(env.ARKE_AGENT_KEY)]

\* generateId() draws a fresh identifier
GenIds == {"g1"}

\* The flow graph stored in the rhiza entity: stepA continues to stepB, stepB ends
Flow == [stepA |-> [then |-> Some("pass:stepB")], stepB |-> [then |-> None]]

----------------------------------------------------------------------------
(* JSON.stringify drops the keys whose value is undefined; JSON.parse      *)
(* yields an object whose missing keys read as undefined.                  *)

RequestKeys == {"job_id", "target_entity", "rhiza"}
ConfigKeys == {"agentId", "agentVersion", "authToken"}

JSONstringify(obj) ==
    [k \in {x \in DOMAIN obj : obj[x] # None} |-> obj[k]]

JSONparse(text, keys) ==
    [k \in keys |-> IF k \in DOMAIN text THEN text[k] ELSE None]

----------------------------------------------------------------------------
(* The job_state table *)

\* Mutants of Terminal: a guard that forgets one of the two terminal values
TerminalOnlyDone(status) == status = "done"
TerminalOnlyError(status) == status = "error"

\* alarm() skips a job that is already terminal
Terminal(status) == status \in {"done", "error"}

one(table) == IF Len(table) = 1 THEN Some(table[1]) ELSE None

\* new Date(): the clock advances with the alarm deliveries
Now == nFire

Event(call, ok) == [call |-> call, ok |-> ok]

\* What processJob came to: it threw, or it returned a ProcessResult
Thrown(message) ==
    [kind |-> "throw", message |-> message, reschedule |-> FALSE, outputs |-> None]
Result(outputs, reschedule) ==
    [kind |-> "result", message |-> << >>, reschedule |-> reschedule, outputs |-> outputs]
NoCallback ==
    [kind |-> "not_called", message |-> << >>, reschedule |-> FALSE, outputs |-> None]

\* No handler has run yet
Idle == [op |-> "none", events |-> << >>, threw |-> FALSE, resp |-> None,
         request |-> None, config |-> None, cb |-> NoCallback, flow |-> None]

\* No start is suspended
NotStarting ==
    [st |-> "idle", body |-> None, request |-> None, config |-> None,
     effect |-> "none", events |-> << >>]

\* No alarm() invocation is in progress
NotRunning ==
    [st |-> "idle", pc |-> "none", err |-> << >>, logFileId |-> None,
     result |-> NoCallback, flow |-> None, then |-> "none", events |-> << >>,
     row |-> << >>, now |-> 0]

\* The values a handler's calls wrote to job_state.status
StatusWritten(call) ==
    IF call = "INSERT job_state" THEN "accepted"
    ELSE IF call = "UPDATE status processing" THEN "processing"
    ELSE IF call = "UPDATE status done" THEN "done"
    ELSE "error"

IsStatusWrite(e) ==
    e.ok /\ e.call \in {"INSERT job_state", "UPDATE status processing",
                        "UPDATE status done", "UPDATE status error"}

StatusWrites(events) ==
    LET w == SelectSeq(events, IsStatusWrite)
    IN  [i \in 1..Len(w) |-> StatusWritten(w[i].call)]

Init ==
    /\ job_state = << >>
    /\ alarmSlot = NoAlarm
    /\ retries = 0
    /\ logs = << >>
    /\ interp = << >>
    /\ cbCalls = << >>
    /\ statusLog = << >>
    /\ nFire = 0
    /\ delivery = "none"
    /\ failed = FALSE
    /\ finalized = FALSE
    /\ run = NotRunning
    /\ starting = NotStarting
    /\ last = Idle

----------------------------------------------------------------------------
(* handleStart: the /start handler of the actor.  Its result is the table, *)
(* the alarm slot and the response after the call.                         *)

\* Mutant of InsertJob: the row is created in status processing
InsertJobProcessing(table, kladosRequest, config, logId, now) ==
    Append(table,
        [id |-> 1,
         request |-> JSONstringify(kladosRequest),
         config |-> JSONstringify(config),
         log_id |-> logId,
         log_file_id |-> None,
         status |-> "processing",
         created_at |-> now,
         error |-> None])

InsertJob(table, kladosRequest, config, logId, now) ==
    Append(table,
        [id |-> 1,
         request |-> JSONstringify(kladosRequest),
         config |-> JSONstringify(config),
         log_id |-> logId,
         log_file_id |-> None,
         status |-> "accepted",
         created_at |-> now,
         error |-> None])

Accepted(kladosRequest) == [accepted |-> TRUE, job_id |-> kladosRequest.job_id]

\* The storage call of a first start that throws, if one does
StartFaults == {"none", "INSERT", "setAlarm"}

\* When the alarm of a pending setAlarm shows in the slot: at the call, or
\* when the call returns
SetAlarmEffects == {"call", "settle"}

\* The alarm handleStart sets
StartAlarm == setAlarm(StartDelay, "handleStart")

\* handleStart from the await of setAlarm to its end: the response, or the
\* exception of setAlarm, which leaves the handler
AfterSetAlarm(s, table, slot, fault) ==
    IF fault = "setAlarm"
    THEN [table |-> table,
          slot |-> IF s.effect = "call" /\ slot = StartAlarm THEN NoAlarm ELSE slot,
          resp |-> None,
          st |-> "thrown",
          effect |-> s.effect,
          events |-> Append(s.events, Event("setAlarm", FALSE))]
    ELSE [table |-> table,
          slot |-> IF s.effect = "settle" THEN StartAlarm ELSE slot,
          resp |-> Some(Accepted(JSONparse(Val(s.body).request, RequestKeys))),
          st |-> "returned",
          effect |-> s.effect,
          events |-> Append(s.events, Event("setAlarm", TRUE))]

\* Mutant of handleStart: INSERT OR REPLACE without the check for an existing row
handleStartReplace(s, table, slot, body, gen, now, fault, effect) ==
    LET kladosRequest == JSONparse(body.request, RequestKeys)
        config == JSONparse(body.config, ConfigKeys)
    IN  IF s.st = "await" THEN AfterSetAlarm(s, table, slot, fault)
        ELSE [table |-> InsertJob(<< >>, kladosRequest, config, <<"log_", gen>>, now),
              slot |-> IF effect = "call" THEN StartAlarm ELSE slot,
              resp |-> None,
              st |-> "await",
              effect |-> effect,
              events |-> <<Event("INSERT job_state", TRUE)>>]

\* Mutant of handleStart: a start that finds the job refreshes its config
handleStartRefreshConfig(s, table, slot, body, gen, now, fault, effect) ==
    LET kladosRequest == JSONparse(body.request, RequestKeys)
        config == JSONparse(body.config, ConfigKeys)
        existing == one(table)
        inserted == InsertJob(table, kladosRequest, config, <<"log_", gen>>, now)
    IN  IF s.st = "await" THEN AfterSetAlarm(s, table, slot, fault)
        ELSE IF IsSome(existing)
        THEN [table |-> [table EXCEPT ![1].config = JSONstringify(config)],
              slot |-> slot,
              resp |-> Some(Accepted(kladosRequest)),
              st |-> "returned",
              effect |-> "none",
              events |-> << >>]
        ELSE IF fault = "INSERT"
        THEN [table |-> table, slot |-> slot,
              resp |-> None,
              st |-> "thrown",
              effect |-> "none",
              events |-> <<Event("INSERT job_state", FALSE)>>]
        ELSE [table |-> inserted,
              slot |-> IF effect = "call" THEN StartAlarm ELSE slot,
              resp |-> None,
              st |-> "await",
              effect |-> effect,
              events |-> <<Event("INSERT job_state", TRUE)>>]

\* handleStart is not one step: it is suspended at the await of setAlarm, and
\* the actor serves other requests until the call comes back.  s is the
\* position of the invocation (NotStarting when it begins); fault names the
\* storage call that throws; the exception leaves the handler
handleStart(s, table, slot, body, gen, now, fault, effect) ==
    LET kladosRequest == JSONparse(body.request, RequestKeys)
        config == JSONparse(body.config, ConfigKeys)
        existing == one(table)
        inserted == InsertJob(table, kladosRequest, config, <<"log_", gen>>, now)
    IN  IF s.st = "await" THEN AfterSetAlarm(s, table, slot, fault)
        ELSE IF IsSome(existing)
        THEN [table |-> table, slot |-> slot,
              resp |-> Some(Accepted(kladosRequest)),
              st |-> "returned",
              effect |-> "none",
              events |-> << >>]
        ELSE IF fault = "INSERT"
        THEN [table |-> table, slot |-> slot,
              resp |-> None,
              st |-> "thrown",
              effect |-> "none",
              events |-> <<Event("INSERT job_state", FALSE)>>]
        ELSE [table |-> inserted,
              slot |-> IF effect = "call" THEN StartAlarm ELSE slot,
              resp |-> None,
              st |-> "await",
              effect |-> effect,
              events |-> <<Event("INSERT job_state", TRUE)>>]

\* The storage failures a start can meet at a call: none when the row exists,
\* since it returns before its first write
StartFaultsAt(call) == {f \in StartFaults : f \in {"none", call}}

\* The effects of setAlarm that can be told apart: one when the row exists
SetAlarmEffectsAt(table) == IF IsSome(one(table)) THEN {"settle"} ELSE SetAlarmEffects

\* What a step of a start leaves: its writes (seen is the number of calls it
\* had made before the step), and what it did and answered
Started(r, seen, req, config) ==
    /\ job_state' = r.table
    /\ alarmSlot' = r.slot
    /\ statusLog' = statusLog \o StatusWrites(SubSeq(r.events, seen + 1, Len(r.events)))
    /\ last' = [Idle EXCEPT !.op = IF r.st = "await" THEN "start_await" ELSE "start",
                            !.events = r.events,
                            !.threw = (r.st = "thrown"),
                            !.resp = r.resp,
                            !.request = req,
                            !.config = config]

\* POST /process of the worker: routes the request to the actor named by its
\* job id; the actor's handleStart runs to its await of setAlarm, or to its
\* end when it finds the job or the INSERT throws
Process(req, env) ==
    /\ req.job_id = Some(ActorJobId)
    /\ LET body == [request |-> JSONstringify(req),
                    config |-> JSONstringify(KladosJobConfig(env))]
           call == IF IsSome(one(job_state)) THEN "none" ELSE "INSERT"
       IN  \E gen \in GenIds, fault \in StartFaultsAt(call),
              effect \in SetAlarmEffectsAt(job_state) :
             LET r == handleStart(NotStarting, job_state, alarmSlot, body, gen, Now,
                                  fault, effect)
             IN  /\ Started(r, 0, Some(req), Some(KladosJobConfig(env)))
                 /\ starting' = IF r.st = "await"
                                THEN [st |-> "await", body |-> Some(body),
                                      request |-> Some(req),
                                      config |-> Some(KladosJobConfig(env)),
                                      effect |-> r.effect, events |-> r.events]
                                ELSE starting
    /\ UNCHANGED <<retries, logs, interp, cbCalls, nFire, delivery, failed, finalized, run>>

\* The setAlarm a start awaits comes back: handleStart answers, and the
\* worker answers with the actor's response; an exception of the actor
\* reaches the caller
ProcessReturns ==
    /\ starting.st = "await"
    /\ \E gen \in GenIds, fault \in StartFaultsAt("setAlarm") :
         LET r == handleStart(starting, job_state, alarmSlot, Val(starting.body), gen, Now,
                              fault, starting.effect)
         IN  Started(r, Len(starting.events), starting.request, starting.config)
    /\ starting' = NotStarting
    /\ UNCHANGED <<retries, logs, interp, cbCalls, nFire, delivery, failed, finalized, run>>

----------------------------------------------------------------------------
(* handleStatus: the /status handler of the actor *)

\* A status handler that answers an absent job with a default status
handleStatusDefault(table) ==
    LET row == one(table)
    IN  IF ~IsSome(row)
        THEN [code |-> 200, status |-> "accepted", error |-> None]
        ELSE [code |-> 200, status |-> Val(row).status, error |-> Val(row).error]

handleStatus(table) ==
    LET row == one(table)
    IN  IF ~IsSome(row)
        THEN [code |-> 404, status |-> "not_found", error |-> None]
        ELSE [code |-> 200, status |-> Val(row).status, error |-> Val(row).error]

Status ==
    /\ last' = [Idle EXCEPT !.op = "status", !.resp = Some(handleStatus(job_state))]
    /\ UNCHANGED <<job_state, alarmSlot, retries, logs, interp, cbCalls, statusLog, nFire,
                   delivery, failed, finalized, run, starting>>

----------------------------------------------------------------------------
(* The collaborators of one alarm() invocation.  A plan says what they do  *)
(* when they are called: what the processing callback comes to, which      *)
(* collaborator call of the try block throws (the first throw leaves the   *)
(* block, so one is enough), what the entity store answers for the rhiza   *)
(* entity, whether the interpreter returns a handoff record, and whether   *)
(* the failure finalizer throws.                                           *)

CallbackOutcomes ==
    {"fetch_fail", "throw", "reschedule", "create_fail", "ok", "custom_outputs", "custom_empty"}
Faults ==
    {"none", "writeKladosLog", "setAlarm", "GET", "interpretThen",
     "updateLogWithHandoffs", "updateLogStatus"}
FetchOutcomes == {"ok", "error", "noflow"}

Plans ==
    [pj : CallbackOutcomes, fault : Faults, fetch : FetchOutcomes,
     rec : BOOLEAN, failKlados : {"ok", "throw"}]

----------------------------------------------------------------------------
(* processJob (job.ts).  Step 3 is the part a worker customises: it goes   *)
(* on to create the output, asks for another alarm, throws, or returns a   *)
(* ProcessResult of its own.                                               *)

processJob(request, pj) ==
    IF ~IsSome(request.target_entity)
    THEN Thrown(<<"No target_entity in request">>)
    ELSE IF pj = "fetch_fail"
    THEN Thrown(<<"Failed to fetch target: ", Val(request.target_entity)>>)
    ELSE IF pj = "throw" THEN Thrown(<<"X">>)
    ELSE IF pj = "reschedule" THEN Result(None, TRUE)
    ELSE IF pj = "custom_outputs" THEN Result(Some(<<"o1", "o2">>), FALSE)
    ELSE IF pj = "custom_empty" THEN Result(None, FALSE)
    ELSE IF pj = "create_fail"
    THEN Thrown(<<"Failed to create output entity: ", "error">>)
    ELSE Result(Some(<<"o1">>), FALSE)

----------------------------------------------------------------------------
(* alarm(): the stages of the try block, then the catch block.  alarm()    *)
(* is not one step: at every await of a collaborator it is suspended, and  *)
(* the actor serves /start and /status until the call comes back.  A       *)
(* context carries the invocation's position (st: run, await, resume,      *)
(* thrown, returned, escaped), the call it awaits (pc), the thrown         *)
(* message, the table, the local logFileId, the callback's result, the     *)
(* flow of the fetched rhiza entity, the continuation directive of the     *)
(* step, the collaborators' state, the alarm slot and the calls made so    *)
(* far.  A stage that is reached (st = run)                                *)
(* makes its call and suspends (st = await); when the call comes back      *)
(* (st = resume, pc the call) the stage takes the call's outcome from the  *)
(* plan and goes on to the next await.                                     *)

Throw(c, message, call) ==
    [c EXCEPT !.st = "thrown", !.err = message,
              !.events = Append(@, Event(call, FALSE))]

Did(c, call) == [c EXCEPT !.events = Append(@, Event(call, TRUE))]

\* The invocation is suspended at the await of a call
Await(c, call) == [c EXCEPT !.st = "await", !.pc = call]

\* The awaited call has come back
Resumes(c, call) == c.st = "resume" /\ c.pc = call

Resumed(c) == [c EXCEPT !.st = "run", !.pc = "none"]

KladosLogEntry(logId, request, config, now) ==
    [id |-> logId, klados_id |-> config.agentId, job_id |-> request.job_id,
     started_at |-> now, status |-> "running", handoffs |-> << >>, failure |-> None]

\* Mutant of WriteInitialLog: writes the initial log on every resumption
WriteInitialLogAlways(c, row, request, config, plan, now) ==
    IF c.st = "run" THEN Await(c, "writeKladosLog")
    ELSE IF ~Resumes(c, "writeKladosLog") THEN c
    ELSE IF plan.fault = "writeKladosLog"
    THEN Throw(c, <<"writeKladosLog failed">>, "writeKladosLog")
    ELSE LET fileId == Len(c.logs) + 1
             c1 == [Resumed(c) EXCEPT
                       !.logs = Append(@, KladosLogEntry(row.log_id, request, config, now)),
                       !.logFileId = Some(fileId),
                       !.table[1].log_file_id = Some(fileId)]
         IN  Did(Did(c1, "writeKladosLog"), "UPDATE log_file_id")

\* Mutant of WriteInitialLog: the id of the log record is not stored in the row
WriteInitialLogNoPersist(c, row, request, config, plan, now) ==
    IF c.st = "run"
    THEN (IF IsSome(c.logFileId) THEN c ELSE Await(c, "writeKladosLog"))
    ELSE IF ~Resumes(c, "writeKladosLog") THEN c
    ELSE IF plan.fault = "writeKladosLog"
    THEN Throw(c, <<"writeKladosLog failed">>, "writeKladosLog")
    ELSE LET fileId == Len(c.logs) + 1
             c1 == [Resumed(c) EXCEPT
                       !.logs = Append(@, KladosLogEntry(row.log_id, request, config, now)),
                       !.logFileId = Some(fileId)]
         IN  Did(c1, "writeKladosLog")

WriteInitialLog(c, row, request, config, plan, now) ==
    IF c.st = "run"
    THEN (IF IsSome(c.logFileId) THEN c ELSE Await(c, "writeKladosLog"))
    ELSE IF ~Resumes(c, "writeKladosLog") THEN c
    ELSE IF plan.fault = "writeKladosLog"
    THEN Throw(c, <<"writeKladosLog failed">>, "writeKladosLog")
    ELSE LET fileId == Len(c.logs) + 1
             c1 == [Resumed(c) EXCEPT
                       !.logs = Append(@, KladosLogEntry(row.log_id, request, config, now)),
                       !.logFileId = Some(fileId),
                       !.table[1].log_file_id = Some(fileId)]
         IN  Did(Did(c1, "writeKladosLog"), "UPDATE log_file_id")

\* The API client alarm() builds for its collaborators and for the callback
ArkeClient(request, config) == [authToken |-> config.authToken]

\* The callback is invoked: the call is recorded with what the row holds
Invoke(c, request, client) ==
    [c EXCEPT !.cbCalls = Append(@, [request |-> request,
                                     client |-> client,
                                     status |-> c.table[1].status,
                                     log_file_id |-> c.table[1].log_file_id,
                                     kind |-> "running",
                                     reschedule |-> FALSE])]

\* The callback comes to its result: it returns or it throws
Complete(c, result) ==
    LET n == Len(c.cbCalls)
        c1 == [c EXCEPT !.st = "run", !.pc = "none",
                        !.result = result,
                        !.cbCalls[n].kind = result.kind,
                        !.cbCalls[n].reschedule = result.reschedule,
                        !.events = Append(@, Event("processJob", result.kind # "throw"))]
    IN  IF result.kind = "throw"
        THEN [c1 EXCEPT !.st = "thrown", !.err = result.message]
        ELSE c1

\* processJob throws at once when the request names no target; otherwise its
\* first await (the fetch of the target) suspends the invocation
RunProcessJob(c, request, client, plan) ==
    IF c.st = "run"
    THEN (IF IsSome(request.target_entity)
          THEN Await(Invoke(c, request, client), "processJob")
          ELSE Complete(Invoke(c, request, client), processJob(request, plan.pj)))
    ELSE IF Resumes(c, "processJob")
    THEN Complete(c, processJob(request, plan.pj))
    ELSE c

\* Mutant of Reschedule: returns on a continue without setting the next alarm
RescheduleNoAlarm(c, plan) ==
    IF c.st = "run"
    THEN (IF ~c.result.reschedule THEN c ELSE Await(c, "setAlarm"))
    ELSE IF ~Resumes(c, "setAlarm") THEN c
    ELSE IF plan.fault = "setAlarm"
    THEN Throw(c, <<"setAlarm failed">>, "setAlarm")
    ELSE [Resumed(c) EXCEPT !.st = "returned"]

Reschedule(c, plan) ==
    IF c.st = "run"
    THEN (IF ~c.result.reschedule THEN c ELSE Await(c, "setAlarm"))
    ELSE IF ~Resumes(c, "setAlarm") THEN c
    ELSE IF plan.fault = "setAlarm"
    THEN Throw(c, <<"setAlarm failed">>, "setAlarm")
    ELSE [Did(Resumed(c), "setAlarm") EXCEPT !.slot = setAlarm(RescheduleDelay, "alarm"),
                                             !.st = "returned"]

\* Mutant of PathLast: the first segment of the path instead of the last
PathFirst(path) == IF Len(path) = 0 THEN None ELSE Some(path[1])

\* Array.prototype.at(-1) on the workflow path
PathLast(path) == IF Len(path) = 0 THEN None ELSE Some(path[Len(path)])

\* interpretThen, and updateLogWithHandoffs when it returns a handoff record
InterpretThen(c, request, rhiza, then, plan) ==
    IF c.st = "run" THEN Await([c EXCEPT !.then = then], "interpretThen")
    ELSE IF Resumes(c, "interpretThen")
    THEN IF plan.fault = "interpretThen"
         THEN Throw(c, <<"interpretThen failed">>, "interpretThen")
         ELSE LET call == [then |-> then, rhizaId |-> rhiza.id, jobId |-> request.job_id,
                           outputs |-> Val(c.result.outputs), fromLogId |-> c.logFileId,
                           path |-> rhiza.path]
                  c1 == Did([Resumed(c) EXCEPT !.interp = Append(@, call)], "interpretThen")
              IN  IF ~plan.rec THEN c1 ELSE Await(c1, "updateLogWithHandoffs")
    ELSE IF Resumes(c, "updateLogWithHandoffs")
    THEN IF plan.fault = "updateLogWithHandoffs"
         THEN Throw(c, <<"updateLogWithHandoffs failed">>, "updateLogWithHandoffs")
         ELSE Did([Resumed(c) EXCEPT !.logs[Val(c.logFileId)].handoffs = Append(@, then)],
                  "updateLogWithHandoffs")
    ELSE c

\* What follows the fetch of the rhiza entity
AfterFetch(c, request, rhiza, plan) ==
    IF plan.fault = "GET"
    THEN Throw(c, <<"GET /entities failed">>, "GET /entities")
    ELSE IF plan.fetch = "error"
    THEN Throw(c, <<"Failed to fetch rhiza: ", rhiza.id>>, "GET /entities")
    ELSE LET flow == IF plan.fetch = "noflow" THEN None ELSE Some(Flow)
             currentStepName == PathLast(rhiza.path)
             c1 == Did([Resumed(c) EXCEPT !.flow = flow], "GET /entities")
         IN  IF ~(IsSome(currentStepName) /\ IsSome(flow)) THEN c1
             ELSE LET myStep == IF Val(currentStepName) \in DOMAIN Val(flow)
                                THEN Some(Val(flow)[Val(currentStepName)])
                                ELSE None
                  IN  IF IsSome(myStep) /\ IsSome(Val(myStep).then)
                      THEN InterpretThen(c1, request, rhiza, Val(Val(myStep).then), plan)
                      ELSE c1

\* Mutant of Handoff: status = done is persisted before the handoff is made
HandoffAfterDone(c, request, plan) ==
    IF c.st = "run"
    THEN (IF ~(IsSome(request.rhiza) /\ IsSome(c.result.outputs)) THEN c
          ELSE Await([Did(c, "UPDATE status done") EXCEPT !.table[1].status = "done"],
                     "GET /entities"))
    ELSE IF Resumes(c, "GET /entities")
    THEN AfterFetch(c, request, Val(request.rhiza), plan)
    ELSE IF Resumes(c, "interpretThen") \/ Resumes(c, "updateLogWithHandoffs")
    THEN InterpretThen(c, request, Val(request.rhiza), c.then, plan)
    ELSE c

Handoff(c, request, plan) ==
    IF c.st = "run"
    THEN (IF ~(IsSome(request.rhiza) /\ IsSome(c.result.outputs)) THEN c
          ELSE Await(c, "GET /entities"))
    ELSE IF Resumes(c, "GET /entities")
    THEN AfterFetch(c, request, Val(request.rhiza), plan)
    ELSE IF Resumes(c, "interpretThen") \/ Resumes(c, "updateLogWithHandoffs")
    THEN InterpretThen(c, request, Val(request.rhiza), c.then, plan)
    ELSE c

\* Mutant of Finalize: the row of a finished job is deleted
FinalizeCleanup(c, plan) ==
    IF c.st = "run" THEN Await(c, "updateLogStatus")
    ELSE IF ~Resumes(c, "updateLogStatus") THEN c
    ELSE IF plan.fault = "updateLogStatus"
    THEN Throw(c, <<"updateLogStatus failed">>, "updateLogStatus")
    ELSE [Did(Did(Resumed(c), "updateLogStatus done"), "UPDATE status done")
            EXCEPT !.logs[Val(c.logFileId)].status = "done",
                   !.table = << >>,
                   !.st = "returned"]

Finalize(c, plan) ==
    IF c.st = "run" THEN Await(c, "updateLogStatus")
    ELSE IF ~Resumes(c, "updateLogStatus") THEN c
    ELSE IF plan.fault = "updateLogStatus"
    THEN Throw(c, <<"updateLogStatus failed">>, "updateLogStatus")
    ELSE [Did(Did(Resumed(c), "updateLogStatus done"), "UPDATE status done")
            EXCEPT !.logs[Val(c.logFileId)].status = "done",
                   !.table[1].status = "done",
                   !.st = "returned"]

\* The end of the catch block: status = error and the message are stored
StoreError(c) ==
    [Did(c, "UPDATE status error")
       EXCEPT !.table[1].status = "error",
              !.table[1].error = Some(c.err),
              !.st = "returned", !.pc = "none"]

\* What failKlados does to the log record when it returns
FailKlados(c, logFileId) ==
    Did([c EXCEPT !.logs[Val(logFileId)].status = "error",
                  !.logs[Val(logFileId)].failure = Some(c.err)],
        "failKlados")

\* Mutant of Catch: failKlados is called whether or not a log record exists
CatchAlwaysFinalize(c, row, plan) ==
    LET logFileId == row.log_file_id
    IN  IF c.st = "thrown"
        THEN (IF IsSome(logFileId) THEN Await(c, "failKlados")
              ELSE StoreError(Did(c, "failKlados")))
        ELSE IF ~Resumes(c, "failKlados") THEN c
        ELSE IF plan.failKlados = "throw"
        THEN [c EXCEPT !.st = "escaped", !.pc = "none", !.err = <<"failKlados failed">>,
                       !.events = Append(@, Event("failKlados", FALSE))]
        ELSE StoreError(FailKlados(c, logFileId))

\* Mutant of Catch: status = error is written without the error message
CatchNoMessage(c, row, plan) ==
    LET logFileId == row.log_file_id
    IN  IF c.st = "thrown"
        THEN (IF IsSome(logFileId) THEN Await(c, "failKlados")
              ELSE [StoreError(c) EXCEPT !.table[1].error = c.table[1].error])
        ELSE IF ~Resumes(c, "failKlados") THEN c
        ELSE IF plan.failKlados = "throw"
        THEN [c EXCEPT !.st = "escaped", !.pc = "none", !.err = <<"failKlados failed">>,
                       !.events = Append(@, Event("failKlados", FALSE))]
        ELSE [StoreError(FailKlados(c, logFileId)) EXCEPT !.table[1].error = c.table[1].error]

\* The catch block: row is the row as alarm() read it when it began
Catch(c, row, plan) ==
    LET logFileId == row.log_file_id
    IN  IF c.st = "thrown"
        THEN (IF IsSome(logFileId) THEN Await(c, "failKlados") ELSE StoreError(c))
        ELSE IF ~Resumes(c, "failKlados") THEN c
        ELSE IF plan.failKlados = "throw"
        THEN [c EXCEPT !.st = "escaped", !.pc = "none", !.err = <<"failKlados failed">>,
                       !.events = Append(@, Event("failKlados", FALSE))]
        ELSE StoreError(FailKlados(c, logFileId))

\* The try block and the catch block, from where the context stands to the
\* next await or to the end of alarm()
alarmBody(c, row, plan, now) ==
    LET request == JSONparse(row.request, RequestKeys)
        config == JSONparse(row.config, ConfigKeys)
        c1 == WriteInitialLog(c, row, request, config, plan, now)
        c2 == RunProcessJob(c1, request, ArkeClient(request, config), plan)
        c3 == Reschedule(c2, plan)
        c4 == Handoff(c3, request, plan)
        c5 == Finalize(c4, plan)
    IN  Catch(c5, row, plan)

\* The context of an invocation that has not passed the guards
NoContext(table, slot, lgs, itp, cbs) ==
    [st |-> "returned", pc |-> "none", err |-> << >>, table |-> table,
     logFileId |-> None, result |-> NoCallback, flow |-> None, then |-> "none",
     logs |-> lgs, interp |-> itp, cbCalls |-> cbs, slot |-> slot, events |-> << >>]

\* Mutant of alarm: status is not set to processing before the work begins
alarmNoProcessing(table, slot, lgs, itp, cbs, plan, now) ==
    LET found == one(table)
        c == NoContext(table, slot, lgs, itp, cbs)
    IN  IF ~IsSome(found) THEN c
        ELSE LET row == Val(found)
             IN  IF Terminal(row.status) THEN c
                 ELSE alarmBody([c EXCEPT !.st = "run", !.logFileId = row.log_file_id],
                                row, plan, now)

\* alarm() from its beginning to its first await, or to its end
alarm(table, slot, lgs, itp, cbs, plan, now) ==
    LET found == one(table)
        c == NoContext(table, slot, lgs, itp, cbs)
    IN  IF ~IsSome(found) THEN c
        ELSE LET row == Val(found)
             IN  IF Terminal(row.status) THEN c
                 ELSE alarmBody(Did([c EXCEPT !.st = "run",
                                              !.table[1].status = "processing",
                                              !.logFileId = row.log_file_id],
                                    "UPDATE status processing"),
                                row, plan, now)

----------------------------------------------------------------------------
(* The platform runs alarm(): when the pending alarm is due (the slot is   *)
(* emptied before the handler runs), or once more for an alarm it already  *)
(* delivered (delivery is at least once).  One invocation runs at a time;  *)
(* it takes one step from its beginning to its first await and one step    *)
(* from each await to the next, and /start and /status are served in       *)
(* between.  A handler that throws is retried a limited number of times.   *)

\* No collaborator is called when alarm() returns at its guards
NoCalls == [pj |-> "ok", fault |-> "none", fetch |-> "ok", rec |-> TRUE, failKlados |-> "ok"]

\* What the awaited call can come to: the plans that differ from NoCalls
\* only in what that call does
PlansAt(call) ==
    {e \in Plans :
       /\ e.pj # "ok" => call = "processJob"
       /\ e.fault = "writeKladosLog" => call = "writeKladosLog"
       /\ e.fault = "setAlarm" => call = "setAlarm"
       /\ e.fault = "GET" => call = "GET /entities"
       /\ e.fault = "interpretThen" => call = "interpretThen"
       /\ e.fault = "updateLogWithHandoffs" => call = "updateLogWithHandoffs"
       /\ e.fault = "updateLogStatus" => call = "updateLogStatus"
       /\ e.fetch # "ok" => call = "GET /entities" /\ e.fault = "none"
       /\ ~e.rec => call = "interpretThen" /\ e.fault = "none"
       /\ e.failKlados = "throw" => call = "failKlados"}

RetryAlarm == [set |-> TRUE, delay |-> 0, by |-> "retry"]

\* The locals of the invocation that continue a context after an await
Suspended(c, table, now) ==
    [st |-> "await", pc |-> c.pc, err |-> c.err, logFileId |-> c.logFileId,
     result |-> c.result, flow |-> c.flow, then |-> c.then, events |-> c.events,
     row |-> table, now |-> now]

\* The context of the suspended invocation when its awaited call comes back
Context ==
    [st |-> "resume", pc |-> run.pc, err |-> run.err, table |-> job_state,
     logFileId |-> run.logFileId, result |-> run.result, flow |-> run.flow,
     then |-> run.then,
     logs |-> logs, interp |-> interp, cbCalls |-> cbCalls, slot |-> alarmSlot,
     events |-> run.events]

\* One step of alarm() has come to context c: its writes are in storage, and
\* the invocation is suspended or has ended (returned, or thrown to the
\* platform); table is the table as the invocation read it when it began
Settle(c, table, now) ==
    LET escaped == c.st = "escaped"
        ended == c.st # "await"
        seen == Len(run.events)
    IN  /\ job_state' = c.table
        /\ logs' = c.logs
        /\ interp' = c.interp
        /\ cbCalls' = c.cbCalls
        /\ run' = IF ended THEN NotRunning ELSE Suspended(c, table, now)
        /\ starting' = starting
        /\ alarmSlot' = IF escaped /\ retries < AlarmRetryLimit THEN RetryAlarm ELSE c.slot
        /\ retries' = IF escaped
                      THEN (IF retries < AlarmRetryLimit THEN retries + 1 ELSE retries)
                      ELSE IF ended THEN 0 ELSE retries
        /\ statusLog' = statusLog \o StatusWrites(SubSeq(c.events, seen + 1, Len(c.events)))
        /\ failed' = (failed \/ \E i \in 1..Len(c.events) : ~c.events[i].ok)
        /\ finalized' = (finalized \/ c.pc = "failKlados"
                                   \/ \E i \in 1..Len(c.events) :
                                        c.events[i].call = "failKlados")
        /\ last' = [Idle EXCEPT !.op = IF ended THEN "alarm" ELSE "alarm_await",
                                !.events = c.events,
                                !.threw = escaped, !.cb = c.result,
                                !.flow = c.flow]

\* alarm() begins: no invocation of it is running
RunAlarm(slot, kind) ==
    /\ run.st = "idle"
    /\ nFire < MaxFires
    /\ nFire' = nFire + 1
    /\ delivery' = kind
    /\ Settle(alarm(job_state, slot, logs, interp, cbCalls, NoCalls, Now), job_state, Now)

\* Mutant of AlarmFires: the alarm stays pending while its handler runs
AlarmFiresKeepSlot ==
    /\ alarmSlot.set
    /\ RunAlarm(alarmSlot, "due")

AlarmFires ==
    /\ alarmSlot.set
    /\ RunAlarm(NoAlarm, "due")

\* An alarm is delivered again: to a job that an alarm() has run for before
\* (it has left accepted), or to an actor that has no job
AlarmRefires ==
    /\ IF Len(job_state) = 0 THEN TRUE ELSE job_state[1].status # "accepted"
    /\ RunAlarm(alarmSlot, "again")

\* The call alarm() awaits comes back, and alarm() runs on to its next await
\* or to its end
AlarmResumes ==
    /\ run.st = "await"
    /\ \E plan \in PlansAt(run.pc) :
         Settle(alarmBody(Context, run.row[1], plan, run.now), run.row, run.now)
    /\ UNCHANGED <<nFire, delivery>>

----------------------------------------------------------------------------

Next ==
    \/ \E req \in Requests, env \in WorkerEnvs : Process(req, env)
    \/ Status
    \/ AlarmFires
    \/ AlarmRefires
    \/ AlarmResumes
    \/ ProcessReturns

Spec == Init /\ [][Next]_vars

\* The timer fires every alarm that is set exactly once: no alarm is delivered
\* a second time
NextOnce ==
    \/ \E req \in Requests, env \in WorkerEnvs : Process(req, env)
    \/ Status
    \/ AlarmFires
    \/ AlarmResumes
    \/ ProcessReturns

OnceSpec == Init /\ [][NextOnce]_vars

\* The steps of AlarmFires, told by what they do to the delivery record: it is
\* enabled exactly when AlarmFires is, and a step of Next is a step of it
\* exactly when it is a step of AlarmFires
AlarmDue ==
    /\ alarmSlot.set
    /\ run.st = "idle"
    /\ nFire < MaxFires
    /\ nFire' = nFire + 1
    /\ delivery' = "due"

\* The timer is fair: an alarm that stays pending is eventually delivered.
\* Every awaited call comes back: it returns or it throws
LiveSpec ==
    /\ Init /\ [][Next]_vars
    /\ WF_<<nFire, delivery>>(AlarmDue)
    /\ WF_vars(AlarmResumes)
    /\ WF_vars(ProcessReturns)

----------------------------------------------------------------------------
(* Properties *)

HasJob == Len(job_state) = 1
Row == job_state[1]
StoredRequest == JSONparse(Row.request, RequestKeys)
StoredConfig == JSONparse(Row.config, ConfigKeys)
Final(status) == status \in {"done", "error"}
Called(events, call) == \E i \in 1..Len(events) : events[i].call = call
Returned(events, call) == \E i \in 1..Len(events) : events[i].call = call /\ events[i].ok
Failed(events) == \E i \in 1..Len(events) : ~events[i].ok
\* A step of alarm(): to an await (alarm_await) or to its end (alarm)
AlarmStep(op) == op \in {"alarm", "alarm_await"}
\* No invocation of alarm() is in progress
NoneRunning == run.st = "idle"
\* No invocation of handleStart is in progress
NoneStarting == starting.st = "idle"
\* The step just taken ends the start that was suspended at setAlarm
StartEnds == starting.st = "await" /\ starting'.st = "idle"
\* The step just taken begins a start
StartBegins == last'.op \in {"start", "start_await"} /\ ~StartEnds

\* C1: at most one JobState is ever created, and by a start that stores its
\* own request and config; a start that no storage failure stops leaves a
\* JobState and answers {accepted: true, job_id}; a start that finds a JobState
\* (whatever its status, and also while the first start still awaits its
\* setAlarm) changes no field of it, schedules nothing, calls no collaborator
\* and answers the same acceptance; the end of the first start changes no
\* field of the JobState either.
C1_IdempotentStart ==
    [][ /\ (last'.op = "start" /\ ~last'.threw =>
              /\ Len(job_state') = 1
              /\ last'.resp = Some([accepted |-> TRUE, job_id |-> Some(ActorJobId)]))
        /\ (StartBegins =>
              IF Len(job_state) = 0
              THEN Len(job_state') = 1 =>
                     /\ JSONparse(job_state'[1].request, RequestKeys) = Val(last'.request)
                     /\ JSONparse(job_state'[1].config, ConfigKeys) = Val(last'.config)
              ELSE /\ last'.op = "start"
                   /\ job_state' = job_state
                   /\ alarmSlot' = alarmSlot
                   /\ logs' = logs /\ interp' = interp /\ cbCalls' = cbCalls
                   /\ statusLog' = statusLog
                   /\ last'.events = << >>
                   /\ ~last'.threw)
        /\ (StartEnds =>
              /\ job_state' = job_state
              /\ JSONparse(job_state'[1].request, RequestKeys) = Val(last'.request)
              /\ JSONparse(job_state'[1].config, ConfigKeys) = Val(last'.config)
              /\ logs' = logs /\ interp' = interp /\ cbCalls' = cbCalls)
      ]_vars

\* A start with another request and another config has just found the job in error
C1_Witness ==
    /\ HasJob /\ Row.status = "error"
    /\ last.op = "start" /\ last.events = << >>
    /\ StoredRequest # Val(last.request)
    /\ StoredConfig # Val(last.config)

\* C2: once the persisted status is done or error, no step changes the status
\* or the stored error.
C2_MonotonicTerminality ==
    [][ (Len(job_state) = 1 /\ Final(job_state[1].status)) =>
          /\ Len(job_state') = 1
          /\ job_state'[1].status = job_state[1].status
          /\ job_state'[1].error = job_state[1].error
      ]_vars

\* alarm() has just run on a job that was already in error
C2_Witness ==
    /\ HasJob /\ Row.status = "error"
    /\ last.op = "alarm" /\ last.events = << >>

\* C3: an alarm() that finds no JobState, or a JobState that is done or error,
\* changes nothing persisted, calls no collaborator, sets no alarm and returns
\* normally.
C3_ResumptionNoop ==
    [][ ( /\ AlarmStep(last'.op) /\ nFire' = nFire + 1
          /\ (Len(job_state) = 0 \/ Final(job_state[1].status)) ) =>
          /\ last'.op = "alarm" /\ run' = NotRunning
          /\ job_state' = job_state
          /\ logs' = logs /\ interp' = interp /\ cbCalls' = cbCalls
          /\ statusLog' = statusLog
          /\ ~(alarmSlot'.set /\ alarmSlot' # alarmSlot)
          /\ last'.events = << >>
          /\ ~last'.threw
      ]_vars

\* Two alarms in succession have found the job done: one invocation did the work
C3_Witness ==
    /\ HasJob /\ Row.status = "done"
    /\ last.op = "alarm" /\ last.events = << >>
    /\ Len(cbCalls) = 1 /\ nFire >= 3

\* C4: every accepted job eventually reaches done or error.  A job whose
\* pending alarm cannot be delivered because the model's budget of alarm
\* deliveries is spent is not counted against the claim.
C4_Completion ==
    HasJob ~> \/ (HasJob /\ Final(Row.status))
              \/ (alarmSlot.set /\ nFire >= MaxFires)

\* C5: an alarm() that passes its guards returns normally, and when one of
\* its calls failed it has persisted status = error.
C5_NoExceptionEscapes ==
    (last.op = "alarm" /\ last.events # << >>) =>
        /\ ~last.threw
        /\ (Failed(last.events) => HasJob /\ Row.status = "error")

\* C6: after an alarm() in which the callback threw the message X, the
\* JobState has status = error and error = X.
C6_FailureRecordsReason ==
    (last.op = "alarm" /\ last.cb.kind = "throw") =>
        /\ HasJob /\ Row.status = "error"
        /\ Row.error = Some(last.cb.message)

\* C7: no job is in status error while its log record, once written, was never
\* given the failure by the failure finalizer.
C7_FailureFinalizer ==
    (HasJob /\ Row.status = "error" /\ IsSome(Row.log_file_id)) =>
        /\ logs[Val(Row.log_file_id)].status = "error"
        /\ (last.op = "alarm" /\ Called(last.events, "UPDATE status error")
              => Called(last.events, "failKlados"))

\* The callback's history is N continues followed by one success
ContinuesThenSuccess ==
    /\ Len(cbCalls) >= 1
    /\ \A i \in 1..Len(cbCalls) :
         /\ cbCalls[i].kind = "result"
         /\ cbCalls[i].reschedule <=> i < Len(cbCalls)

DoneWrites == Cardinality({i \in 1..Len(statusLog) : statusLog[i] = "done"})

\* C8: when the callback signals continue on N resumptions and then succeeds,
\* the initial log was written once over the whole run, the resumption of the
\* success ends in done when none of its calls fails, and status was written
\* done exactly once.
C8_ContinueLoopPreservesIdentity ==
    ContinuesThenSuccess =>
        /\ Len(logs) = 1
        /\ DoneWrites <= 1
        /\ (HasJob /\ Row.status = "done" => DoneWrites = 1)
        /\ (last.op = "alarm" /\ last.cb.kind = "result" /\ ~last.cb.reschedule
              /\ ~Failed(last.events) => HasJob /\ Row.status = "done")

\* Two continues, then the success: the job is done
C8_Witness ==
    /\ ContinuesThenSuccess /\ Len(cbCalls) = 3
    /\ HasJob /\ Row.status = "done"
    /\ last.op = "alarm"

\* C9: over the whole life of a job the flow interpreter is invoked at most
\* once, and with the outputs the callback returned.
C9_HandoffOnce ==
    /\ Len(interp) <= 1
    /\ (last.op = "alarm" /\ Returned(last.events, "interpretThen")
          => interp[Len(interp)].outputs = Val(last.cb.outputs))

\* The conditions under which alarm() invokes the interpreter: the job has a
\* workflow and the callback returned outputs, the fetched rhiza entity
\* carries a flow, and the flow gives the last step of the path a
\* continuation directive
AtContinuation ==
    /\ IsSome(StoredRequest.rhiza)
    /\ IsSome(last.cb.outputs)
    /\ IsSome(last.flow)
    /\ LET path == Val(StoredRequest.rhiza).path
           flow == Val(last.flow)
       IN  /\ Len(path) > 0
           /\ path[Len(path)] \in DOMAIN flow
           /\ IsSome(flow[path[Len(path)]].then)

\* The rhiza entity's flow has no continuation directive for the last step of
\* the path, or the path has no step
NoDirective(path) ==
    \/ Len(path) = 0
    \/ path[Len(path)] \notin DOMAIN Flow
    \/ ~IsSome(Flow[path[Len(path)]].then)

\* The cases in which the handoff is skipped: the job has no workflow, the
\* callback returned no outputs, the step has no continuation directive, or
\* the rhiza entity that was fetched has no flow
SkipCase ==
    \/ ~IsSome(StoredRequest.rhiza)
    \/ ~IsSome(last.cb.outputs)
    \/ NoDirective(Val(StoredRequest.rhiza).path)
    \/ Returned(last.events, "GET /entities") /\ ~IsSome(last.flow)

CallbackSucceeded == last.cb.kind = "result" /\ ~last.cb.reschedule

\* The messages of the calls that can fail in a skip case after the callback
\* returned: the rhiza fetch and the log finalization
SkipFailureMessages ==
    { <<"GET /entities failed">>, <<"Failed to fetch rhiza: ", "r1">>,
      <<"updateLogStatus failed">> }

\* C10 as stated: the interpreter is invoked only for a workflow job at a step
\* with a continuation whose callback succeeded, and in a skip case a
\* successful callback ends in done with the log done.
C10_Original ==
    last.op = "alarm" =>
        /\ (Called(last.events, "interpretThen") => AtContinuation /\ CallbackSucceeded)
        /\ (CallbackSucceeded /\ SkipCase =>
              /\ ~Called(last.events, "interpretThen")
              /\ Row.status = "done"
              /\ logs[Val(Row.log_file_id)].status = "done")

\* C10 as amended: the interpreter is invoked only for a workflow job whose
\* callback succeeded with outputs and whose fetched flow gives its step a
\* continuation directive.  In a skip case with a successful callback the
\* interpreter is not invoked, and the job is done and the log finalized
\* done exactly when no call of that alarm() fails; when the rhiza fetch or
\* the log finalization fails, alarm() ends in error with that failure's
\* message and the log is not done, or, when failKlados throws as well, it
\* leaves the job in processing with error NULL.
C10_HandoffOnlyOnWorkflowSuccess ==
    last.op = "alarm" =>
        /\ (Called(last.events, "interpretThen") => AtContinuation /\ CallbackSucceeded)
        /\ (CallbackSucceeded /\ SkipCase =>
              /\ ~Called(last.events, "interpretThen")
              /\ (Row.status = "done" <=> ~Failed(last.events))
              /\ (logs[Val(Row.log_file_id)].status = "done" <=> ~Failed(last.events))
              /\ (Failed(last.events) /\ ~last.threw =>
                    /\ Row.status = "error"
                    /\ IsSome(Row.error) /\ Val(Row.error) \in SkipFailureMessages)
              /\ (last.threw =>
                    /\ \E i \in 1..Len(last.events) :
                         last.events[i].call = "failKlados" /\ ~last.events[i].ok
                    /\ Row.status = "processing"
                    /\ ~IsSome(Row.error)))

\* A workflow job at a step with a continuation directive whose fetched
\* rhiza entity has no flow: the interpreter was not invoked, the job is done
\* and the log is finalized done
C10_Witness ==
    /\ last.op = "alarm" /\ CallbackSucceeded
    /\ HasJob /\ IsSome(StoredRequest.rhiza)
    /\ ~NoDirective(Val(StoredRequest.rhiza).path)
    /\ Returned(last.events, "GET /entities") /\ ~IsSome(last.flow)
    /\ SkipCase
    /\ ~Called(last.events, "interpretThen")
    /\ Row.status = "done"
    /\ logs[Val(Row.log_file_id)].status = "done"

\* C11: a status query answers not_found exactly when no JobState exists;
\* otherwise it answers the persisted status (accepted, processing, done or
\* error) and the persisted error; in both cases it changes nothing persisted
\* and sets no alarm.
C11_StatusQuery ==
    [][ last'.op = "status" =>
          /\ (Val(last'.resp).status = "not_found" <=> Len(job_state) = 0)
          /\ (Len(job_state) = 1 =>
                /\ Val(last'.resp).status = job_state[1].status
                /\ Val(last'.resp).status \in {"accepted", "processing", "done", "error"}
                /\ Val(last'.resp).error = job_state[1].error)
          /\ job_state' = job_state /\ alarmSlot' = alarmSlot
          /\ logs' = logs /\ interp' = interp /\ cbCalls' = cbCalls
          /\ statusLog' = statusLog
      ]_vars

\* A status query has just answered a failed job with its status and its error
C11_Witness ==
    /\ last.op = "status"
    /\ HasJob /\ Row.status = "error"
    /\ Val(last.resp).status = "error"
    /\ IsSome(Val(last.resp).error) /\ Val(last.resp).error = Row.error

\* C12: a start that returns the acceptance, the retry of a start that a
\* storage failure stopped included, leaves the job with a resumption
\* scheduled while its status is accepted (once no start is still awaiting
\* its setAlarm).
C12_StartRetrySafe ==
    (last.op = "start" /\ ~last.threw /\ NoneStarting /\ HasJob /\ Row.status = "accepted") =>
        alarmSlot.set

\* C13: once a call of an alarm() invocation has failed, the callback is not
\* invoked again and no start changes the job or sets an alarm; and no step
\* of an invocation in which a call has failed sets an alarm itself (the alarm
\* it leaves is none, the one that was pending before it, or the platform's
\* retry).
C13_NoAutomaticRetry ==
    [][ /\ (failed => Len(cbCalls') = Len(cbCalls))
        /\ (failed /\ last'.op = "start" =>
              job_state' = job_state /\ alarmSlot' = alarmSlot)
        /\ (AlarmStep(last'.op) /\ Failed(last'.events) =>
              ~alarmSlot'.set \/ alarmSlot' = alarmSlot \/ alarmSlot' = RetryAlarm)
      ]_vars

\* C14: for a timer that fires every alarm once and collaborators that do not
\* fail: when the callback has signalled continue N times and then succeeded
\* and the alarm() of the success has ended, alarm() has run exactly N+1 times,
\* each run invoking the callback, the job is done and no alarm is pending.
C14_CheckpointedLongJob ==
    (ContinuesThenSuccess /\ ~failed /\ NoneRunning) =>
        /\ nFire = Len(cbCalls)
        /\ HasJob /\ Row.status = "done"
        /\ ~alarmSlot.set

\* Two continues and the success, three alarms in all: done, nothing pending
C14_Witness ==
    /\ ContinuesThenSuccess /\ Len(cbCalls) = 3 /\ ~failed /\ NoneRunning
    /\ nFire = 3
    /\ HasJob /\ Row.status = "done"
    /\ ~alarmSlot.set

\* The changes of status the state machine allows
AllowedTransitions ==
    { <<"accepted", "processing">>, <<"processing", "processing">>,
      <<"processing", "done">>, <<"processing", "error">> }

\* C15: the values written to the persisted status, in order, begin with
\* accepted and every next one follows by accepted -> processing,
\* processing -> processing, processing -> done or processing -> error; the
\* persisted status is the value written last.
C15_AllowedTransitions ==
    /\ (HasJob <=> Len(statusLog) >= 1)
    /\ (HasJob => statusLog[1] = "accepted" /\ Row.status = statusLog[Len(statusLog)])
    /\ \A i \in 1..(Len(statusLog) - 1) :
         <<statusLog[i], statusLog[i + 1]>> \in AllowedTransitions

\* A job that went accepted, processing, processing again after a continue,
\* then error
C15_Witness ==
    /\ statusLog = <<"accepted", "processing", "processing", "error">>
    /\ HasJob /\ Row.status = "error"

\* C16: in every persisted JobState, error is non-null exactly when status is
\* error.
C16_ErrorIffStatusError ==
    HasJob => (IsSome(Row.error) <=> Row.status = "error")

\* The catch block has just stored the failure of a call that followed a
\* successful callback
C16_Witness ==
    /\ HasJob /\ Row.status = "error" /\ IsSome(Row.error)
    /\ last.op = "alarm" /\ last.cb.kind = "result"
    /\ Called(last.events, "UPDATE status error")

\* The calls made in the step just taken: those of the handler that ran, or
\* those alarm() made since the await it was suspended at
StepEvents ==
    IF AlarmStep(last'.op) /\ run.st = "await"
    THEN SubSeq(last'.events, Len(run.events) + 1, Len(last'.events))
    ELSE last'.events

\* C17: log_file_id is NULL in the row a start creates; it becomes non-null
\* only in an alarm() whose initial log write returned; and once it is
\* non-null no step changes it or writes it again.
C17_LogFileIdSetOnce ==
    [][ /\ (Len(job_state) = 0 /\ Len(job_state') = 1 =>
              job_state'[1].log_file_id = None)
        /\ (Len(job_state) = 1 =>
              /\ Len(job_state') = 1
              /\ IF IsSome(job_state[1].log_file_id)
                 THEN /\ job_state'[1].log_file_id = job_state[1].log_file_id
                      /\ ~Called(StepEvents, "UPDATE log_file_id")
                      /\ ~Called(StepEvents, "writeKladosLog")
                 ELSE IsSome(job_state'[1].log_file_id) =>
                        /\ AlarmStep(last'.op)
                        /\ Returned(StepEvents, "writeKladosLog")
                        /\ Len(logs') = Len(logs) + 1
                        /\ job_state'[1].log_file_id = Some(Len(logs')))
      ]_vars

\* A resumption after a continue has failed: it wrote no log and the id stored
\* by the first resumption is still there
C17_Witness ==
    /\ HasJob /\ IsSome(Row.log_file_id) /\ Row.status = "error"
    /\ last.op = "alarm" /\ Failed(last.events)
    /\ ~Called(last.events, "writeKladosLog")
    /\ Len(cbCalls) >= 2 /\ Len(logs) = 1

\* What C18 says of a state that an alarm() whose callback signalled continue
\* has just left: alarm() returned, status is processing, error is NULL, the
\* alarm set by the continue is pending, the log record is neither done nor
\* failed, and neither the interpreter nor a log finalizer was called.
ContinueOutcome ==
    /\ ~last.threw
    /\ HasJob /\ Row.status = "processing" /\ Row.error = None
    /\ alarmSlot = [set |-> TRUE, delay |-> RescheduleDelay, by |-> "alarm"]
    /\ Cardinality({i \in 1..Len(last.events) : last.events[i].call = "setAlarm"}) = 1
    /\ IsSome(Row.log_file_id)
    /\ logs[Val(Row.log_file_id)].status = "running"
    /\ logs[Val(Row.log_file_id)].failure = None
    /\ ~Called(last.events, "GET /entities")
    /\ ~Called(last.events, "interpretThen")
    /\ ~Called(last.events, "updateLogStatus done")
    /\ ~Called(last.events, "failKlados")

CallbackContinued == last.op = "alarm" /\ last.cb.kind = "result" /\ last.cb.reschedule

\* C18: an alarm() whose callback signals continue, and in which setting the
\* next alarm does not fail, ends in the continue outcome.
C18_ContinueOutcome ==
    (CallbackContinued /\ ~Failed(last.events)) => ContinueOutcome

\* The second continue in a row has just been answered
C18_Witness ==
    /\ CallbackContinued /\ ~Failed(last.events)
    /\ Len(cbCalls) = 2 /\ nFire = 2
    /\ alarmSlot.set /\ Row.status = "processing"

\* C19: a start on an actor with no JobState that no storage failure stops
\* creates the JobState with status accepted, a generated log id, log_file_id
\* and error NULL, then sets the first alarm at the start delay and answers
\* the acceptance (when it answers, its alarm is pending or has been
\* delivered already); in none of its steps is the callback, the log
\* recorder or the interpreter invoked.
C19_FirstStart ==
    [][ /\ (StartBegins /\ Len(job_state) = 0 /\ ~last'.threw =>
              /\ last'.op = "start_await"
              /\ Len(job_state') = 1
              /\ job_state'[1].status = "accepted"
              /\ \E g \in GenIds : job_state'[1].log_id = <<"log_", g>>
              /\ job_state'[1].log_file_id = None
              /\ job_state'[1].error = None
              /\ last'.events = <<Event("INSERT job_state", TRUE)>>
              /\ cbCalls' = cbCalls /\ logs' = logs /\ interp' = interp
              /\ nFire' = nFire)
        /\ (StartEnds /\ ~last'.threw =>
              /\ last'.op = "start"
              /\ alarmSlot' = [set |-> TRUE, delay |-> StartDelay, by |-> "handleStart"]
                    \/ job_state'[1].status # "accepted"
              /\ last'.resp = Some([accepted |-> TRUE, job_id |-> Some(ActorJobId)])
              /\ last'.events = <<Event("INSERT job_state", TRUE), Event("setAlarm", TRUE)>>
              /\ cbCalls' = cbCalls /\ logs' = logs /\ interp' = interp
              /\ nFire' = nFire)
      ]_vars

\* The first start has just returned: the job is accepted, its alarm is
\* pending and nothing has been processed
C19_Witness ==
    /\ last.op = "start" /\ ~last.threw /\ last.events # << >>
    /\ HasJob /\ Row.status = "accepted" /\ Row.log_file_id = None
    /\ alarmSlot.set /\ alarmSlot.delay = StartDelay
    /\ cbCalls = << >> /\ logs = << >> /\ interp = << >>

\* The positions of the calls of a handler invocation that are among `calls`
Positions(events, calls) == {i \in 1..Len(events) : events[i].call \in calls}

\* C20: within an alarm() the interpreter is invoked before its handoff record
\* is appended to the log, and both come before the log is finalized done and
\* before status = done is written; a job left done by an alarm() that
\* appended a handoff record has the record in its log; and status is never
\* done while a call of the handoff is awaited.
C20_HandoffOrdering ==
    /\ (HasJob /\ Row.status = "done" =>
          run.pc \notin {"GET /entities", "interpretThen", "updateLogWithHandoffs"})
    /\ (last.op = "alarm" =>
        /\ \A i \in Positions(last.events, {"interpretThen", "updateLogWithHandoffs"}) :
             \A j \in Positions(last.events, {"updateLogStatus", "updateLogStatus done",
                                                "UPDATE status done"}) : i < j
        /\ \A i \in Positions(last.events, {"interpretThen"}) :
             \A j \in Positions(last.events, {"updateLogWithHandoffs"}) : i < j
        /\ (Called(last.events, "UPDATE status done") /\ Called(last.events, "interpretThen") =>
              /\ Returned(last.events, "interpretThen")
              /\ Len(interp) >= 1)
        /\ (Called(last.events, "UPDATE status done")
              /\ Called(last.events, "updateLogWithHandoffs") =>
              /\ HasJob /\ Row.status = "done"
              /\ logs[Val(Row.log_file_id)].handoffs # << >>
              /\ logs[Val(Row.log_file_id)].status = "done"))

\* A workflow job has just been finished: interpreter invoked, handoff record
\* appended, log finalized, status done
C20_Witness ==
    /\ last.op = "alarm"
    /\ Returned(last.events, "interpretThen")
    /\ Returned(last.events, "updateLogWithHandoffs")
    /\ Returned(last.events, "updateLogStatus done")
    /\ HasJob /\ Row.status = "done"
    /\ logs[Val(Row.log_file_id)].handoffs # << >>

\* C21: whenever status is done, log_file_id is non-null, the job's log record
\* has status done and carries no failure, and failKlados has never been
\* invoked for the job; in the alarm() that wrote done, the log finalization
\* comes before the status write.
C21_DoneImpliesFinalizedLog ==
    (HasJob /\ Row.status = "done") =>
        /\ IsSome(Row.log_file_id)
        /\ logs[Val(Row.log_file_id)].status = "done"
        /\ logs[Val(Row.log_file_id)].failure = None
        /\ ~finalized
        /\ (Called(last.events, "UPDATE status done") =>
              \A i \in Positions(last.events, {"updateLogStatus done"}) :
                \A j \in Positions(last.events, {"UPDATE status done"}) : i < j)

\* The call of the handoff block that failed in the last handler invocation
HandoffCallFailed ==
    \E i \in 1..Len(last.events) :
        /\ last.events[i].call \in {"GET /entities", "interpretThen"}
        /\ ~last.events[i].ok

\* The messages of the failures of the rhiza fetch and of the interpreter
HandoffFailureMessages ==
    { <<"GET /entities failed">>, <<"Failed to fetch rhiza: ", "r1">>,
      <<"interpretThen failed">> }

\* C22: an alarm() whose callback succeeded and in which the rhiza fetch or
\* the interpreter failed returns with status = error and the failure's
\* message in error; it has not finalized the log as done and has not written
\* status done.
C22_HandoffErrorsFailJob ==
    (last.op = "alarm" /\ CallbackSucceeded /\ HandoffCallFailed) =>
        /\ ~last.threw
        /\ HasJob /\ Row.status = "error"
        /\ IsSome(Row.error) /\ Val(Row.error) \in HandoffFailureMessages
        /\ ~Called(last.events, "updateLogStatus done")
        /\ ~Called(last.events, "UPDATE status done")
        /\ logs[Val(Row.log_file_id)].status # "done"

\* The initial log write was attempted and failed in the last handler invocation
InitialLogWriteFailed ==
    \E i \in 1..Len(last.events) :
        last.events[i].call = "writeKladosLog" /\ ~last.events[i].ok

\* C23: an alarm() whose initial log write fails returns with status = error
\* and the failure's message in error; log_file_id is still NULL, no log
\* record exists, and neither failKlados nor the callback was invoked.
C23_FailureBeforeLog ==
    (last.op = "alarm" /\ InitialLogWriteFailed) =>
        /\ ~last.threw
        /\ HasJob /\ Row.status = "error"
        /\ Row.error = Some(<<"writeKladosLog failed">>)
        /\ Row.log_file_id = None
        /\ logs = << >>
        /\ ~Called(last.events, "failKlados") /\ ~finalized
        /\ ~Called(last.events, "processJob") /\ cbCalls = << >>
        /\ last.cb = NoCallback

\* The first alarm() has just failed at its initial log write
C23_Witness ==
    /\ last.op = "alarm" /\ InitialLogWriteFailed
    /\ nFire = 1
    /\ HasJob /\ Row.status = "error" /\ Row.log_file_id = None
    /\ Called(last.events, "UPDATE status error")

\* C24: once the JobState exists, no step changes its request, config, log_id
\* or created_at; and every invocation of the callback so far was given the
\* stored request and a client made with the stored config's credential.
C24_ImmutablePayload ==
    [][ /\ (Len(job_state) = 1 =>
              /\ Len(job_state') = 1
              /\ job_state'[1].request = job_state[1].request
              /\ job_state'[1].config = job_state[1].config
              /\ job_state'[1].log_id = job_state[1].log_id
              /\ job_state'[1].created_at = job_state[1].created_at)
        /\ \A i \in 1..Len(cbCalls') :
              /\ cbCalls'[i].request = JSONparse(job_state'[1].request, RequestKeys)
              /\ cbCalls'[i].client.authToken =
                    JSONparse(job_state'[1].config, ConfigKeys).authToken
      ]_vars

\* The callback has run three times, and a start with another request and
\* another config has come in between: the stored payload is the first one
C24_Witness ==
    /\ HasJob /\ Len(cbCalls) = 3
    /\ last.op = "start" /\ last.events = << >>
    /\ StoredRequest # Val(last.request)
    /\ StoredConfig # Val(last.config)
    /\ \A i \in 1..3 : cbCalls[i].request = StoredRequest

\* C25: the table never holds more than one row, no step removes the row, and
\* a status query on a job that is done or error answers that status, not
\* not_found.
C25_JobStatePersists ==
    [][ /\ Len(job_state') <= 1
        /\ (Len(job_state) = 1 => Len(job_state') = 1)
        /\ (last'.op = "status" /\ Len(job_state) = 1 /\ Final(job_state[1].status) =>
              /\ Val(last'.resp).code = 200
              /\ Val(last'.resp).status = job_state[1].status)
      ]_vars

\* A status query has just answered done for a job that two alarms completed
C25_Witness ==
    /\ last.op = "status"
    /\ HasJob /\ Row.status = "done"
    /\ Val(last.resp).status = "done" /\ Val(last.resp).code = 200
    /\ nFire >= 2 /\ Len(cbCalls) = 2

\* C26: whenever no invocation of alarm() or of start is in progress and a
\* JobState exists with status accepted or processing, an alarm is pending for
\* the actor.
C26_NoOrphanedJob ==
    (NoneRunning /\ NoneStarting /\ HasJob /\ Row.status \in {"accepted", "processing"}) =>
        alarmSlot.set

\* C27: a job for which the flow interpreter was invoked and returned is never
\* in status error.
C27_HandoffAndErrorExclusive ==
    (HasJob /\ Len(interp) >= 1) => Row.status # "error"

\* C28: at every invocation of the callback the persisted status was
\* processing and the row held the id of a log record that had been written;
\* in the alarm() that invoked it, the status write and, when that alarm()
\* wrote the log, the log write come before the invocation.
C28_LogBeforeWork ==
    /\ \A i \in 1..Len(cbCalls) :
         /\ cbCalls[i].status = "processing"
         /\ IsSome(cbCalls[i].log_file_id)
         /\ Val(cbCalls[i].log_file_id) \in 1..Len(logs)
    /\ (last.op = "alarm" =>
          \A j \in Positions(last.events, {"processJob"}) :
            /\ \E i \in Positions(last.events, {"UPDATE status processing"}) : i < j
            /\ \A i \in Positions(last.events, {"writeKladosLog", "UPDATE log_file_id"}) :
                 i < j /\ last.events[i].ok)

\* The callback has run on two resumptions: the first wrote the log before it,
\* the second found it
C28_Witness ==
    /\ Len(cbCalls) = 2
    /\ cbCalls[1].log_file_id = cbCalls[2].log_file_id
    /\ last.op = "alarm" /\ Called(last.events, "processJob")
    /\ ~Called(last.events, "writeKladosLog")
    /\ Len(logs) = 1

====
